---- MODULE Spec2Model ----
(***************************************************************************)
(* Model of the action handlers of src/clipboard/src/actions.cpp           *)
(* (namespace PerformAction): copy / addFiles (copyItem), paste and        *)
(* removeRegex, with the result counters, the failedItems list, the        *)
(* originals log and the conflict policy they update.                      *)
(*                                                                         *)
(* One behaviour is one run of the program: one handler is invoked once.   *)
(* Strings are sequences of one-character strings.                         *)
(***************************************************************************)
EXTENDS Integers, Sequences, FiniteSets, TLC

VARIABLES
    action,        \* the Action the process was started with
    use_safe_copy, \* copying.use_safe_copy
    raw,           \* fs::is_regular_file(path.data.raw)
    items,         \* copying.items
    data,          \* names of the direct children of path.data
    target,        \* state of fs::current_path() / name, for every filename
    policy,        \* copying.policy
    successes,     \* successes.files / successes.directories
    failedItems,   \* copying.failedItems
    originals,     \* lines of path.metadata.originals
    regexes,       \* the local vector regexes of paste() / removeRegex()
    i,             \* position of the range-for over copying.items
    todo,          \* entries the fs::directory_iterator has not yet produced
    pc,            \* position of the process
    clipboard_name, \* name of the clipboard the process works on
    boards,        \* for load(): the data directory of Clipboard(name), per name
    hist           \* per Item: what the handler did for it (history)

vars == <<action, use_safe_copy, raw, items, data, target, policy, successes,
          failedItems, originals, regexes, i, todo, pc, clipboard_name, boards, hist>>

----------------------------------------------------------------------------
(* Bounds of the model *)

MaxItems == 2      \* longest copying.items
MaxEntries == 2    \* most children of path.data before paste / removeRegex

----------------------------------------------------------------------------
(* The file system and the inputs the runs are drawn from *)

\* paths given to copy / addFiles; the last one ends in a separator
Sources == { <<"a">>, <<"b">>, <<"b", "/">> }

\* which of them fs::is_directory() holds of
Dirs == { <<"b">>, <<"b", "/">> }

\* names of children of path.data
Filenames == { <<"a">>, <<"a", "b">>, <<"b">> }

\* filter patterns given to paste / removeRegex; the last one does not compile
Patterns == { <<"a">>, <<"a", ".", "*">>, <<"*">> }

\* error codes of a fs::filesystem_error
Codes == { "EXDEV", "EACCES" }

cross_device_link == "EXDEV"

\* what one call of fs::copy / fs::remove_all does
Outcomes == { "ok" } \cup Codes

\* what a second call does, when there is one
SecondOutcomes(called) == IF called THEN Outcomes ELSE { "ok" }

\* names of clipboards
ClipboardNames == { "0", "1", "2" }

\* constants.default_clipboard_name
default_clipboard_name == "0"

\* a data directory of a clipboard: missing, empty, or holding one entry
BoardStates ==
    { [exists |-> FALSE, entries |-> {}],
      [exists |-> TRUE, entries |-> {}],
      [exists |-> TRUE, entries |-> { <<"a">> }] }

\* a line the originals log may hold from an earlier run
OldLine == <<"/", "o", "l", "d">>

SeqsUpTo(S, n) == UNION { [1..k -> S] : k \in 0..n }

SubsetsUpTo(S, n) == { T \in SUBSET S : Cardinality(T) <= n }

----------------------------------------------------------------------------
(* Paths *)

RECURSIVE LastSlash(_, _)
\* position of the last separator among the first n characters of p, or 0
LastSlash(p, n) ==
    IF n = 0 THEN 0
    ELSE IF p[n] = "/" THEN n
    ELSE LastSlash(p, n - 1)

\* fs::path::filename(): what follows the last separator
filename(p) == SubSeq(p, LastSlash(p, Len(p)) + 1, Len(p))

\* fs::path::parent_path(): what precedes the last separator
parent_path(p) ==
    IF LastSlash(p, Len(p)) = 0 THEN << >>
    ELSE SubSeq(p, 1, LastSlash(p, Len(p)) - 1)

\* fs::absolute(f).string(): the path under the current directory
absolute(f) == <<"/", "w", "/">> \o f

is_directory(f) == f \in Dirs

\* the name copyItem gives an Item in path.data
copyTarget(f) ==
    IF is_directory(f)
    THEN IF filename(f) = << >> THEN filename(parent_path(f)) ELSE filename(f)
    ELSE filename(f)

----------------------------------------------------------------------------
(* Regular expressions: literal characters, "." and a postfix "*" *)

\* std::regex(item.string()) throws for a pattern that starts with "*"
Compiles(p) == p = << >> \/ p[1] # "*"

CharMatches(c, ch) == c = "." \/ c = ch

RECURSIVE Matches(_, _)
\* pattern p matches exactly the whole of s
Matches(p, s) ==
    IF p = << >> THEN s = << >>
    ELSE IF Len(p) >= 2 /\ p[2] = "*"
    THEN \/ Matches(SubSeq(p, 3, Len(p)), s)
         \/ /\ s # << >>
            /\ CharMatches(p[1], s[1])
            /\ Matches(p, Tail(s))
    ELSE /\ s # << >>
         /\ CharMatches(p[1], s[1])
         /\ Matches(Tail(p), Tail(s))

\* pattern p matches some substring of s (std::regex_search)
regex_search(s, p) ==
    \E a \in 1..(Len(s) + 1) : \E b \in (a - 1)..Len(s) :
        Matches(p, SubSeq(s, a, b))

\* std::regex_match(s, p)
regex_match(s, p) == Matches(p, s)

\* a compilation that leaves out the patterns that do not compile
compileSkipsInvalid(its) == [thrown |-> FALSE, regexes |-> SelectSeq(its, Compiles)]

\* std::transform(copying.items ..., std::regex(item.string())): every pattern
\* is compiled, and the first that does not compile throws std::regex_error
compile(its) ==
    IF \E k \in 1..Len(its) : ~Compiles(its[k])
    THEN [thrown |-> TRUE, regexes |-> << >>]
    ELSE [thrown |-> FALSE, regexes |-> its]

\* a filter that keeps an entry when a pattern matches a part of its name
entryKeptBySearch(e) ==
    regexes = << >> \/ \E k \in 1..Len(regexes) : regex_search(e, regexes[k])

\* the filter of paste(): !regexes.empty() && !std::any_of(... regex_match ...)
\* skips the entry
entryKept(e) ==
    regexes = << >> \/ \E k \in 1..Len(regexes) : regex_match(e, regexes[k])

----------------------------------------------------------------------------
(* Result counters *)

\* incrementSuccessesForItem(item): one more directory or one more file
incrementSuccessesForItem(s, isdir) ==
    IF isdir THEN [s EXCEPT !.directories = @ + 1]
    ELSE [s EXCEPT !.files = @ + 1]

\* what a handler did for one Item
\*   order: how many Items were handled before it, plus one
\*   kept: it passed the filter;  matched: a pattern of removeRegex matched it
\*   existed, equiv: fs::exists(target), fs::equivalent(entry, target) before
\*   before, after: copying.policy before and after
\*   asked: calls of userDecision();  answer: what it returned
\*   copies: calls of fs::copy;  first, second: what they did
\*   succ: calls of incrementSuccessesForItem;  fails: entries added to
\*   failedItems;  logged: lines added to the originals log
NoHist == [order |-> 0, kept |-> TRUE, matched |-> FALSE,
           existed |-> FALSE, equiv |-> FALSE,
           before |-> "Unknown", after |-> "Unknown",
           asked |-> 0, answer |-> "none",
           copies |-> 0, first |-> "none", second |-> "none",
           succ |-> 0, fails |-> 0, logged |-> 0]

----------------------------------------------------------------------------
(* copyItem *)

\* a retry that is never made
copyItemNeverRetries(code) == FALSE

\* the catch of copyItem: is the failed fast copy tried again as a safe copy
copyItemRetry(code) == ~use_safe_copy /\ code = cross_device_link

\* number of calls of actuallyCopyItem, o1 the outcome of the first
copyItemAttempts(o1) == IF o1 # "ok" /\ copyItemRetry(o1) THEN 2 ELSE 1

\* did one of the calls of actuallyCopyItem reach incrementSuccessesForItem
copyItemSucceeds(o1, o2) == o1 = "ok" \/ (copyItemRetry(o1) /\ o2 = "ok")

\* a failed retry that records nothing
copyItemDropsRetryFailure(f, o1, o2) ==
    IF o1 = "ok" \/ copyItemRetry(o1) THEN << >> ELSE << <<f, o1>> >>

\* what copyItem appends to copying.failedItems
copyItemFailures(f, o1, o2) ==
    IF o1 = "ok" THEN << >>
    ELSE IF copyItemRetry(o1)
         THEN IF o2 = "ok" THEN << >> ELSE << <<f, o2>> >>
         ELSE << <<f, o1>> >>

\* a log written for every Item of a cut, copied or not
cutLogsAlways(ok) == action = "Cut"

\* does actuallyCopyItem append the source to the originals log
cutLogs(ok) == ok /\ action = "Cut"

\* copyItem(f): o1, o2 are what the first and the second fs::copy do
copyItem(f, o1, o2) ==
    LET ok == copyItemSucceeds(o1, o2)
        failures == copyItemFailures(f, o1, o2)
    IN  /\ data' = IF ok THEN data \cup {copyTarget(f)} ELSE data
        /\ successes' = IF ok THEN incrementSuccessesForItem(successes, is_directory(f))
                        ELSE successes
        /\ originals' = IF cutLogs(ok) THEN Append(originals, absolute(f)) ELSE originals
        /\ failedItems' = failedItems \o failures
        /\ hist' = Append(hist, [NoHist EXCEPT !.order = Len(hist) + 1,
                                               !.before = policy,
                                               !.after = policy,
                                               !.first = o1,
                                               !.second = IF copyItemAttempts(o1) = 2
                                                          THEN o2 ELSE "none",
                                               !.copies = copyItemAttempts(o1),
                                               !.succ = IF ok THEN 1 ELSE 0,
                                               !.fails = Len(failures),
                                               !.logged = IF cutLogs(ok) THEN 1 ELSE 0])

\* copy(): one iteration of the loop over copying.items
copy ==
    /\ action \in {"Cut", "Copy"}
    /\ pc \in {"start", "run"}
    /\ i <= Len(items)
    /\ \E o1 \in Outcomes : \E o2 \in SecondOutcomes(o1 # "ok" /\ copyItemRetry(o1)) :
           copyItem(items[i], o1, o2)
    /\ i' = i + 1
    /\ pc' = "run"
    /\ UNCHANGED <<clipboard_name, boards, action, use_safe_copy, raw, items, target, policy, regexes, todo>>

\* copy(): the loop is over
copyReturn ==
    /\ action \in {"Cut", "Copy"}
    /\ pc \in {"start", "run"}
    /\ i > Len(items)
    /\ pc' = "done"
    /\ UNCHANGED <<clipboard_name, boards, action, use_safe_copy, raw, items, data, target, policy, successes,
                   failedItems, originals, regexes, i, todo, hist>>

\* addFiles(): the clipboard holds text, exit(EXIT_FAILURE)
addFilesToText ==
    /\ action = "Add"
    /\ pc = "start"
    /\ raw
    /\ pc' = "exit_failure"
    /\ UNCHANGED <<clipboard_name, boards, action, use_safe_copy, raw, items, data, target, policy, successes,
                   failedItems, originals, regexes, i, todo, hist>>

\* addFiles(): one iteration of the loop over copying.items
addFiles ==
    /\ action = "Add"
    /\ pc \in {"start", "run"}
    /\ ~raw
    /\ i <= Len(items)
    /\ \E o1 \in Outcomes : \E o2 \in SecondOutcomes(o1 # "ok" /\ copyItemRetry(o1)) :
           copyItem(items[i], o1, o2)
    /\ i' = i + 1
    /\ pc' = "run"
    /\ UNCHANGED <<clipboard_name, boards, action, use_safe_copy, raw, items, target, policy, regexes, todo>>

\* addFiles(): the loop is over
addFilesReturn ==
    /\ action = "Add"
    /\ pc \in {"start", "run"}
    /\ ~raw
    /\ i > Len(items)
    /\ pc' = "done"
    /\ UNCHANGED <<clipboard_name, boards, action, use_safe_copy, raw, items, data, target, policy, successes,
                   failedItems, originals, regexes, i, todo, hist>>

----------------------------------------------------------------------------
(* paste *)

\* what userDecision() can return
Decisions == {"ReplaceAll", "ReplaceOnce", "SkipOnce", "SkipAll"}

\* copying.policy when a handler starts
InitPolicy == "Unknown"

\* a switch whose ReplaceAll case asks again
pasteAsksUnlessSkipAll(exists) == exists /\ policy # "SkipAll"

\* the switch of paste(): is userDecision() called for an entry
pasteAsks(exists) == exists /\ policy \notin {"SkipAll", "ReplaceAll"}

\* the answers userDecision() gives when called, and none when not called
Answers(exists) == IF pasteAsks(exists) THEN Decisions ELSE {"none"}

\* copying.policy after the switch, d being the user's answer if asked
policyAfter(exists, d) == IF pasteAsks(exists) THEN d ELSE policy

\* a switch whose SkipAll case falls through to ReplaceAll
pasteCallsOnSkipAll(exists, d) ==
    IF exists THEN policyAfter(exists, d) \in {"ReplaceOnce", "ReplaceAll", "SkipAll"}
    ELSE TRUE

\* the try block of paste(): is pasteItem() called for an entry
pasteCalls(exists, d) ==
    IF exists
    THEN CASE policy = "SkipAll" -> FALSE
           [] policy = "ReplaceAll" -> TRUE
           [] OTHER -> policyAfter(exists, d) \in {"ReplaceOnce", "ReplaceAll"}
    ELSE TRUE

\* the catch of paste(): is pasteItem(true) called after a filesystem_error
pasteRetry(code) == ~use_safe_copy

\* pasteItem: fs::copy is not called when the target is the entry itself
pasteItemCopies(e) == ~(target[e] # "absent" /\ target[e] = "equivalent")

\* what pasteItem throws, o being what its fs::copy does
pasteItemThrows(e, o) == IF pasteItemCopies(e) THEN o ELSE "ok"

\* the options of the fs::copy of pasteItem include create_hard_links
pasteItemLinks(e, use_regular_copy) == ~(use_regular_copy \/ is_directory(e))

\* what paste() does for the kept entry e: d is the user's answer, o1 and o2
\* what the first and the second fs::copy do
pasteKept(e, d, o1, o2) ==
    LET exists == target[e] # "absent"
        calls == pasteCalls(exists, d)
        t1 == IF calls THEN pasteItemThrows(e, o1) ELSE "ok"
        retry == t1 # "ok" /\ pasteRetry(t1)
        t2 == IF retry THEN pasteItemThrows(e, o2) ELSE "ok"
        ok == (calls /\ t1 = "ok") \/ (retry /\ t2 = "ok")
        copies == (IF calls /\ pasteItemCopies(e) THEN 1 ELSE 0)
                  + (IF retry /\ pasteItemCopies(e) THEN 1 ELSE 0)
        failures == IF t1 = "ok" THEN << >>
                    ELSE IF retry
                         THEN IF t2 = "ok" THEN << >> ELSE << <<e, t2>> >>
                         ELSE << <<e, t1>> >>
        linked == IF retry THEN pasteItemLinks(e, TRUE)
                  ELSE pasteItemLinks(e, use_safe_copy)
    IN  /\ policy' = policyAfter(exists, d)
        /\ successes' = IF ok THEN incrementSuccessesForItem(successes, is_directory(e))
                        ELSE successes
        /\ failedItems' = failedItems \o failures
        /\ target' = IF ok /\ pasteItemCopies(e)
                     THEN [target EXCEPT ![e] = IF linked THEN "equivalent" ELSE "other"]
                     ELSE target
        /\ hist' = hist @@ (e :> [NoHist EXCEPT
                                    !.order = Cardinality(DOMAIN hist) + 1,
                                    !.after = policyAfter(exists, d),
                                    !.second = IF retry /\ pasteItemCopies(e) THEN o2 ELSE "none",
                                    !.existed = exists,
                                    !.equiv = target[e] = "equivalent",
                                    !.before = policy,
                                    !.asked = IF pasteAsks(exists) THEN 1 ELSE 0,
                                    !.answer = IF pasteAsks(exists) THEN d ELSE "none",
                                    !.first = IF calls /\ pasteItemCopies(e) THEN o1 ELSE "none",
                                    !.copies = copies,
                                    !.succ = IF ok THEN 1 ELSE 0,
                                    !.fails = Len(failures)])

\* paste(): the patterns are compiled; a std::regex_error leaves the handler
pasteCompile ==
    /\ action = "Paste"
    /\ pc = "start"
    /\ IF compile(items).thrown
       THEN pc' = "regex_error" /\ UNCHANGED <<regexes, todo>>
       ELSE pc' = "run" /\ regexes' = compile(items).regexes /\ todo' = data
    /\ UNCHANGED <<clipboard_name, boards, action, use_safe_copy, raw, items, data, target, policy, successes,
                   failedItems, originals, i, hist>>

\* paste(): one iteration of the loop over fs::directory_iterator(path.data)
pasteEntry ==
    /\ action = "Paste"
    /\ pc = "run"
    /\ \E e \in todo :
        /\ todo' = todo \ {e}
        /\ IF entryKept(e)
           THEN \E d \in Answers(target[e] # "absent") :
                \E o1 \in Outcomes : \E o2 \in SecondOutcomes(o1 # "ok" /\ pasteRetry(o1)) :
                    pasteKept(e, d, o1, o2)
           ELSE /\ hist' = hist @@ (e :> [NoHist EXCEPT !.kept = FALSE,
                                                        !.order = Cardinality(DOMAIN hist) + 1,
                                                        !.after = policy,
                                                        !.existed = target[e] # "absent",
                                                        !.equiv = target[e] = "equivalent",
                                                        !.before = policy])
                /\ UNCHANGED <<policy, successes, failedItems, target>>
    /\ UNCHANGED <<clipboard_name, boards, action, use_safe_copy, raw, items, data, originals, regexes, i, pc>>

\* removeOldFiles(): the originals of an earlier cut are consumed
removeOldFiles == originals' = << >>

\* paste(): the loop is over, removeOldFiles() is called
pasteReturn ==
    /\ action = "Paste"
    /\ pc = "run"
    /\ todo = {}
    /\ removeOldFiles
    /\ pc' = "done"
    /\ UNCHANGED <<clipboard_name, boards, action, use_safe_copy, raw, items, data, target, policy, successes,
                   failedItems, regexes, i, todo, hist>>

----------------------------------------------------------------------------
(* removeRegex, for a clipboard that holds items (path.data.raw is no file). *)
(* A pattern read from the pipe is the single element of items.              *)

RECURSIVE removeMatching(_, _, _, _)
\* the loop over regexes for the entry e, from pattern k on: os[k] is what
\* fs::remove_all does for pattern k while the entry is still there (a
\* remove_all of a path that is gone removes nothing and throws nothing);
\* the entry is gone when incrementSuccessesForItem looks at it, so it is
\* counted as a file
removeMatching(e, k, os, st) ==
    IF k > Len(regexes) THEN st
    ELSE IF ~regex_match(e, regexes[k]) THEN removeMatching(e, k + 1, os, st)
    ELSE LET o == IF st.gone THEN "ok" ELSE os[k]
         IN  removeMatching(e, k + 1, os,
                 IF o = "ok"
                 THEN [st EXCEPT !.gone = TRUE, !.matched = TRUE,
                                 !.removed = @ + 1,
                                 !.successes = incrementSuccessesForItem(@, FALSE)]
                 ELSE [st EXCEPT !.matched = TRUE,
                                 !.failures = Append(@, <<e, o>>)])

\* the test before the fatal error of removeRegex
nothingMatched == successes.directories = 0 /\ successes.files = 0

\* removeRegex(): the patterns are compiled
removeRegexCompile ==
    /\ action = "Remove"
    /\ pc = "start"
    /\ ~raw
    /\ IF compile(items).thrown
       THEN pc' = "regex_error" /\ UNCHANGED <<regexes, todo>>
       ELSE pc' = "run" /\ regexes' = compile(items).regexes /\ todo' = data
    /\ UNCHANGED <<clipboard_name, boards, action, use_safe_copy, raw, items, data, target, policy, successes,
                   failedItems, originals, i, hist>>

\* removeRegex(): one iteration of the loop over fs::directory_iterator(path.data)
removeRegexEntry ==
    /\ action = "Remove"
    /\ pc = "run"
    /\ \E e \in todo : \E os \in [1..Len(regexes) -> Outcomes] :
        LET st == removeMatching(e, 1, os,
                      [gone |-> FALSE, matched |-> FALSE, removed |-> 0,
                       successes |-> successes, failures |-> << >>])
        IN  /\ todo' = todo \ {e}
            /\ data' = IF st.gone THEN data \ {e} ELSE data
            /\ successes' = st.successes
            /\ failedItems' = failedItems \o st.failures
            /\ hist' = hist @@ (e :> [NoHist EXCEPT !.kept = st.matched,
                                                    !.order = Cardinality(DOMAIN hist) + 1,
                                                    !.before = policy,
                                                    !.after = policy,
                                                    !.matched = st.matched,
                                                    !.succ = st.removed,
                                                    !.fails = Len(st.failures)])
    /\ UNCHANGED <<clipboard_name, boards, action, use_safe_copy, raw, items, target, policy, originals,
                   regexes, i, pc>>

\* removeRegex(): the loop is over; exit(EXIT_FAILURE) when nothing was removed
removeRegexReturn ==
    /\ action = "Remove"
    /\ pc = "run"
    /\ todo = {}
    /\ pc' = IF nothingMatched THEN "nothing_matched" ELSE "done"
    /\ UNCHANGED <<clipboard_name, boards, action, use_safe_copy, raw, items, data, target, policy, successes,
                   failedItems, originals, regexes, i, todo, hist>>

----------------------------------------------------------------------------
(* load.  Clipboard(name) is the directory of the clipboard of that name, one *)
(* directory per name; path.data is the data directory of clipboard_name.    *)
(* The messages and the update of the GUI clipboard are left out.            *)

\* the local vector destinations: the given names, or the default name
destinations ==
    IF items # << >> THEN items ELSE << default_clipboard_name >>

\* !fs::exists(path.data) || fs::is_empty(path.data)
loadSourceEmpty ==
    ~boards[clipboard_name].exists \/ boards[clipboard_name].entries = {}

\* a load that accepts every destination
loadIntoAnything(dests) == FALSE

\* std::find(destinations.begin(), destinations.end(), clipboard_name) finds it
loadIntoItself(dests) == \E k \in 1..Len(dests) : dests[k] = clipboard_name

\* Clipboard(name).data: the data directory of the clipboard of that name,
\* one directory per name
Clipboard(b, name) == b[name]

\* fs::directory_iterator(destination.data) and the fs::remove_all of every
\* entry: r is what they do; there is nothing to iterate when the directory
\* is missing, and a failure leaves the directory as it is or a part of it
afterRemoval(b, d, r) ==
    IF r = "ok"
    THEN IF Clipboard(b, d).exists THEN { [b EXCEPT ![d].entries = {}] } ELSE {}
    ELSE { [b EXCEPT ![d].entries = left] :
             left \in ((SUBSET Clipboard(b, d).entries) \ {{}})
                      \cup {Clipboard(b, d).entries} }

\* fs::copy(path.data, destination.data, fs::copy_options::recursive): c is
\* what it does; a failure leaves a part of the entries uncopied
afterCopy(b, d, c) ==
    IF c = "ok"
    THEN { [b EXCEPT ![d].entries = @ \cup b[clipboard_name].entries] }
    ELSE { [b EXCEPT ![d].entries = @ \cup part] :
             part \in (SUBSET b[clipboard_name].entries) \ {b[clipboard_name].entries} }

\* load(): the two tests before the loop; exit(EXIT_FAILURE) when the source
\* is missing or empty, or is one of the destinations
loadCheck ==
    /\ action = "Load"
    /\ pc = "start"
    /\ pc' = IF loadSourceEmpty \/ loadIntoItself(destinations)
             THEN "exit_failure" ELSE "run"
    /\ UNCHANGED <<clipboard_name, boards, action, use_safe_copy, raw, items, data,
                   target, policy, successes, failedItems, originals, regexes, i,
                   todo, hist>>

\* load(): one iteration of the loop over destinations
loadDestination ==
    /\ action = "Load"
    /\ pc = "run"
    /\ i <= Len(destinations)
    /\ \E r \in Outcomes : \E b1 \in afterRemoval(boards, destinations[i], r) :
          IF r # "ok"
          THEN /\ boards' = b1
               /\ failedItems' = Append(failedItems, <<destinations[i], r>>)
          ELSE \E c \in Outcomes : \E b2 \in afterCopy(b1, destinations[i], c) :
                   /\ boards' = b2
                   /\ failedItems' = IF c = "ok" THEN failedItems
                                      ELSE Append(failedItems, <<destinations[i], c>>)
    /\ i' = i + 1
    /\ UNCHANGED <<clipboard_name, action, use_safe_copy, raw, items, data, target,
                   policy, successes, originals, regexes, todo, pc, hist>>

\* load(): the loop is over
loadReturn ==
    /\ action = "Load"
    /\ pc = "run"
    /\ i > Len(destinations)
    /\ pc' = "done"
    /\ UNCHANGED <<clipboard_name, boards, action, use_safe_copy, raw, items, data,
                   target, policy, successes, failedItems, originals, regexes, i,
                   todo, hist>>

----------------------------------------------------------------------------
(* The program *)

CopyActions == {"Cut", "Copy", "Add"}

FilterActions == {"Paste", "Remove"}

Init ==
    /\ action \in CopyActions \cup FilterActions \cup {"Load"}
    /\ use_safe_copy \in (IF action = "Load" THEN {FALSE} ELSE BOOLEAN)
    /\ raw \in (IF action = "Add" THEN BOOLEAN ELSE {FALSE})
    /\ items \in (IF action \in CopyActions THEN SeqsUpTo(Sources, MaxItems)
                  ELSE IF action = "Load" THEN SeqsUpTo(ClipboardNames, MaxItems)
                  ELSE SeqsUpTo(Patterns, MaxItems))
    /\ data \in (IF action \in FilterActions THEN SubsetsUpTo(Filenames, MaxEntries)
                 ELSE {{}})
    /\ target \in { t \in [Filenames -> {"absent", "equivalent", "other"}] :
                      \A e \in Filenames :
                          (action # "Paste" \/ e \notin data) => t[e] = "absent" }
    /\ policy = InitPolicy
    /\ successes = [files |-> 0, directories |-> 0]
    /\ failedItems = << >>
    /\ originals \in (IF action \in {"Remove", "Load"} THEN { << >> }
                      ELSE { << >>, <<OldLine>> })
    /\ clipboard_name \in (IF action = "Load" THEN ClipboardNames
                           ELSE {default_clipboard_name})
    /\ boards \in (IF action = "Load" THEN [ClipboardNames -> BoardStates]
                   ELSE {[n \in ClipboardNames |-> [exists |-> TRUE, entries |-> {}]]})
    /\ regexes = << >>
    /\ i = 1
    /\ todo = {}
    /\ pc = "start"
    /\ hist = << >>

Next ==
    \/ copy
    \/ copyReturn
    \/ addFilesToText
    \/ addFiles
    \/ addFilesReturn
    \/ pasteCompile
    \/ pasteEntry
    \/ pasteReturn
    \/ removeRegexCompile
    \/ removeRegexEntry
    \/ removeRegexReturn
    \/ loadCheck
    \/ loadDestination
    \/ loadReturn

Spec == Init /\ [][Next]_vars

----------------------------------------------------------------------------
(* Properties *)

\* the Items a finished batch had to handle
BatchKeys == IF action \in CopyActions THEN 1..Len(items) ELSE data

\* the handler is over and every Item of the batch has been handled
BatchComplete == pc = "done" /\ DOMAIN hist = BatchKeys

\* outcomes an Item has produced
Outcome(k) == hist[k].succ + hist[k].fails

\* a kept entry of paste() whose collision was answered by skipping
Skipped(k) ==
    /\ hist[k].existed
    /\ \/ hist[k].before = "SkipAll"
       \/ hist[k].answer \in {"SkipOnce", "SkipAll"}

\* the counters and the failure list hold what the Items produced
TotalsAgree ==
    /\ successes.files + successes.directories
         = Cardinality({k \in DOMAIN hist : hist[k].succ = 1})
    /\ Len(failedItems) = Cardinality({k \in DOMAIN hist : hist[k].fails = 1})

\* C1 as stated: when copy(), addFiles() or paste() completes, every Item of
\* copying.items, and every staging child that passes the filter, has
\* produced exactly one outcome, a success or a failure
C1_ExactlyOneOutcome ==
    (pc = "done" /\ action \in CopyActions \cup {"Paste"}) =>
        /\ DOMAIN hist = BatchKeys
        /\ \A k \in DOMAIN hist : hist[k].kept => Outcome(k) = 1

\* C1 as amended: when the batch completes every Item has been handled, none
\* has both a success and a failure, the totals are those of the Items, and
\* an Item has no outcome exactly when it is a kept child of paste() whose
\* destination existed and whose collision was skipped
C1_OneOutcomeUnlessSkipped ==
    (pc = "done" /\ action \in CopyActions \cup {"Paste"}) =>
        /\ DOMAIN hist = BatchKeys
        /\ TotalsAgree
        /\ \A k \in DOMAIN hist : hist[k].kept =>
              /\ Outcome(k) <= 1
              /\ Outcome(k) = 0 <=> (action = "Paste" /\ Skipped(k))

\* a paste that completed with a failed child and a skipped child
C1_Witness ==
    /\ action = "Paste"
    /\ BatchComplete
    /\ \E a, b \in DOMAIN hist :
          /\ hist[a].kept /\ hist[a].fails = 1 /\ hist[a].order = 1
          /\ hist[b].kept /\ Skipped(b) /\ hist[b].order = 2

\* C2 as stated: in copyItem() and in paste() a second copy is attempted only
\* with the fast strategy after a cross-device error; after any other error
\* the failure is recorded with no second attempt
C2_SecondAttemptOnlyCrossDevice ==
    action \in CopyActions \cup {"Paste"} =>
        \A k \in DOMAIN hist :
            /\ hist[k].copies >= 2 =>
                  (~use_safe_copy /\ hist[k].first = cross_device_link)
            /\ hist[k].first \in Codes \ {cross_device_link} =>
                  (hist[k].copies = 1 /\ hist[k].fails = 1)

\* C3: in copyItem() a fast copy that fails with a cross-device error is
\* tried once more: two attempts, never three; a success of the second gives
\* one success and no failure, a failure of the second gives one failure
C3_CrossDeviceRetriedOnce ==
    action \in CopyActions =>
        /\ TotalsAgree
        /\ \A k \in DOMAIN hist :
              /\ hist[k].copies <= 2
              /\ (~use_safe_copy /\ hist[k].first = cross_device_link) =>
                    /\ hist[k].copies = 2
                    /\ hist[k].second = "ok" => (hist[k].succ = 1 /\ hist[k].fails = 0)
                    /\ hist[k].second # "ok" => (hist[k].succ = 0 /\ hist[k].fails = 1)

\* a copy whose first Item failed twice, across devices and then again
C3_Witness ==
    /\ action \in CopyActions
    /\ ~use_safe_copy
    /\ \E k \in DOMAIN hist :
          /\ hist[k].first = cross_device_link
          /\ hist[k].second = "EACCES"
          /\ hist[k].copies = 2
          /\ failedItems = << <<items[k], "EACCES">> >>

\* C4 as stated: in paste() a kept child whose destination exists and is the
\* same filesystem entry is counted as a success without a copy, whatever
\* the policy and without a question to the user
C4_EquivalentAlwaysSuccess ==
    action = "Paste" =>
        \A e \in DOMAIN hist :
            (hist[e].kept /\ hist[e].existed /\ hist[e].equiv) =>
                (hist[e].copies = 0 /\ hist[e].succ = 1 /\ hist[e].asked = 0)

\* the answers "skip all" and "replace all"
AllAnswers == {"SkipAll", "ReplaceAll"}

\* a collision handled before child e was answered skip-all or replace-all
AnsweredAllBefore(e) ==
    \E f \in DOMAIN hist :
        hist[f].order < hist[e].order /\ hist[f].answer \in AllAnswers

\* C5: in paste() the user is asked on a collision exactly when no earlier
\* collision of the batch was answered skip-all or replace-all; an answer
\* for one Item leaves the next collision to be asked again, and a policy
\* of SkipAll or ReplaceAll stays what it is
C5_AskedUntilAllAnswer ==
    action = "Paste" =>
        /\ \A e \in DOMAIN hist :
              /\ (hist[e].kept /\ hist[e].existed) =>
                    (hist[e].asked = 1 <=> ~AnsweredAllBefore(e))
              /\ hist[e].asked = 1 => hist[e].after = hist[e].answer
              /\ hist[e].asked = 0 => hist[e].after = hist[e].before
              /\ hist[e].before \in AllAnswers => hist[e].after = hist[e].before
              /\ \A f \in DOMAIN hist :
                    hist[f].order = hist[e].order + 1 => hist[f].before = hist[e].after
        /\ policy \in AllAnswers <=> \E e \in DOMAIN hist : hist[e].answer \in AllAnswers

\* a paste that asked twice: replace for one child, then skip-all
C5_Witness ==
    /\ action = "Paste"
    /\ policy = "SkipAll"
    /\ \E a, b \in DOMAIN hist :
          /\ hist[a].order = 1 /\ hist[a].answer = "ReplaceOnce"
          /\ hist[b].order = 2 /\ hist[b].asked = 1 /\ hist[b].answer = "SkipAll"

\* C6: in paste() a colliding child met under SkipAll, or answered skip-all,
\* is bypassed: no copy, no success, no failure, the destination as it was
C6_SkipAllBypasses ==
    action = "Paste" =>
        \A e \in DOMAIN hist :
            (hist[e].kept /\ hist[e].existed
               /\ (hist[e].before = "SkipAll" \/ hist[e].answer = "SkipAll")) =>
                /\ hist[e].copies = 0
                /\ hist[e].succ = 0
                /\ hist[e].fails = 0
                /\ target[e] = IF hist[e].equiv THEN "equivalent" ELSE "other"
                /\ \A k \in 1..Len(failedItems) : failedItems[k][1] # e

\* a paste where skip-all was answered for one child and met by the next
C6_Witness ==
    /\ action = "Paste"
    /\ \E a, b \in DOMAIN hist :
          /\ hist[a].order = 1 /\ hist[a].answer = "SkipAll"
          /\ hist[b].order = 2 /\ hist[b].kept /\ hist[b].existed
          /\ hist[b].before = "SkipAll" /\ hist[b].asked = 0

\* the filenames a pattern matches as a whole
FullLanguage(p) ==
    CASE p = <<"a">> -> { <<"a">> }
      [] p = <<"a", ".", "*">> -> { <<"a">>, <<"a", "b">> }
      [] OTHER -> {}

\* C7: in paste() a child is processed exactly when the filter set is empty
\* or its whole filename matches a pattern; a child that is filtered out is
\* not copied, counted, recorded as failed or asked about; with an empty
\* filter set a completed paste has processed every child
C7_WholeNameFilter ==
    action = "Paste" =>
        /\ \A e \in DOMAIN hist :
              /\ hist[e].kept <=>
                    (items = << >> \/ \E k \in 1..Len(items) : e \in FullLanguage(items[k]))
              /\ ~hist[e].kept =>
                    /\ hist[e].copies = 0 /\ hist[e].succ = 0
                    /\ hist[e].fails = 0 /\ hist[e].asked = 0
                    /\ target[e] = IF ~hist[e].existed THEN "absent"
                                   ELSE IF hist[e].equiv THEN "equivalent" ELSE "other"
                    /\ \A k \in 1..Len(failedItems) : failedItems[k][1] # e
        /\ TotalsAgree
        /\ (pc = "done" /\ items = << >>) =>
              (DOMAIN hist = data /\ \A e \in data : hist[e].kept)

\* a paste with the pattern "a" that processed "a" and left "ab" out
C7_Witness ==
    /\ action = "Paste"
    /\ items = << <<"a">> >>
    /\ DOMAIN hist = { <<"a">>, <<"a", "b">> }
    /\ hist[<<"a">>].kept /\ hist[<<"a">>].succ = 1
    /\ ~hist[<<"a", "b">>].kept

\* copying.items holds a pattern that is no regular expression
HasInvalidPattern == \E k \in 1..Len(items) : items[k] = <<"*">>

\* C8: when a pattern given to paste() or removeRegex() does not compile the
\* handler is left at once: no pattern set is in use, no child has been
\* enumerated, copied or removed, the counters and failedItems are untouched
C8_InvalidPatternAborts ==
    (action \in FilterActions /\ HasInvalidPattern /\ pc # "start") =>
        /\ pc = "regex_error"
        /\ regexes = << >>
        /\ todo = {}
        /\ hist = << >>
        /\ successes = [files |-> 0, directories |-> 0]
        /\ failedItems = << >>

\* a handler left on the pattern "*" although the pattern "a" before it
\* matches a child of the clipboard
C8_Witness ==
    /\ action \in FilterActions
    /\ pc = "regex_error"
    /\ items = << <<"a">>, <<"*">> >>
    /\ <<"a">> \in data

RECURSIVE CutLines(_)
\* the lines a cut has logged for its first n Items: one per copied Item
CutLines(n) ==
    IF n = 0 THEN << >>
    ELSE IF hist[n].succ = 1 THEN Append(CutLines(n - 1), absolute(items[n]))
    ELSE CutLines(n - 1)

\* the lines the copy handlers have added to the originals log
LoggedLines == IF action = "Cut" THEN CutLines(Len(hist)) ELSE << >>

\* C9: copyItem() appends the absolute source path of an Item to the
\* originals log once if the action is Cut and the copy succeeded, and
\* nothing otherwise: the log grows by one line per copied Item of a cut
C9_OriginalsLoggedOnCutSuccess ==
    action \in CopyActions =>
        /\ originals \in { LoggedLines, <<OldLine>> \o LoggedLines }
        /\ \A k \in DOMAIN hist :
              hist[k].logged = IF action = "Cut" /\ hist[k].succ = 1 THEN 1 ELSE 0

\* a cut of two Items: the first copied on the safe retry, the second failed
C9_Witness ==
    /\ action = "Cut"
    /\ pc = "done"
    /\ Len(hist) = 2
    /\ hist[1].first = cross_device_link /\ hist[1].succ = 1
    /\ hist[2].fails = 1
    /\ originals = << absolute(items[1]) >>

\* C10 as stated: removeRegex() on a clipboard holding items ends with the
\* nothing-matched error exactly when no entry's filename matches a pattern
C10_ErrorIffNothingMatched ==
    (action = "Remove" /\ pc \in {"done", "nothing_matched"}) =>
        (pc = "nothing_matched" <=> \A e \in DOMAIN hist : ~hist[e].matched)

\* the destinations the claim speaks of: the given names, or the default
\* clipboard name when none is given
NamedDestinations == IF Len(items) = 0 THEN { "0" } ELSE { items[k] : k \in 1..Len(items) }

\* the source clipboard is missing or holds nothing
SourceHoldsNothing ==
    \A e \in Filenames : ~(boards[clipboard_name].exists /\ e \in boards[clipboard_name].entries)

\* C11: no step of load() changes the contents of the source clipboard; and
\* when the source clipboard is empty or missing, or its own name is among
\* the destinations, load() ends with failure and no step changes a
\* clipboard or records a failure
C11_LoadKeepsSource ==
    [][ action = "Load" =>
          /\ boards'[clipboard_name] = boards[clipboard_name]
          /\ (SourceHoldsNothing \/ clipboard_name \in NamedDestinations) =>
                /\ boards' = boards
                /\ failedItems' = failedItems
                /\ pc' = "exit_failure" ]_vars

\* a load from "0" into "1" and "0" that ended with failure, with the
\* entry that "1" held still there
C11_Witness ==
    /\ action = "Load"
    /\ pc = "exit_failure"
    /\ clipboard_name = "0"
    /\ items = << "1", "0" >>
    /\ boards["0"].entries = { <<"a">> }
    /\ boards["1"].entries = { <<"a">> }

====
